---- MODULE Spec2Model ----
(***************************************************************************)
(* Model of the slhack animation state machine (slhack/src/scene.rs), of   *)
(* the A* navigation solver (src/astar.rs), of the navmesh builder         *)
(* (get_navmesh in slhack/src/scene.rs), of the deferred renderer          *)
(* (slhack/src/deferred.rs), of scene drawing (Scene::draw), of the cursor  *)
(* loop of advance_state taken one iteration at a time, of game_loop        *)
(* (slhack/src/game_loop.rs) and of the exclusive sounds of Sfx             *)
(* (slhack/src/sfx.rs).  Each has its own specification; the variables of   *)
(* the others stay as they are.                                            *)
(*                                                                         *)
(* Time is counted in half units: an f64 time t of the source is the       *)
(* integer 2*t here, so that dt = 0.5 is the integer 1.  Positions,        *)
(* rotations (an angle about one fixed axis, for which slerp is linear in  *)
(* the angle) and scales are integers; an interpolated value is the exact  *)
(* rational <<numerator, denominator>>.                                    *)
(***************************************************************************)
EXTENDS Integers, Sequences, FiniteSets, TLC

VARIABLES
    state,          \* the AnimationState of one game entity
    aborted,        \* a panic has ended the program
    lastOp,         \* the last call made on the AnimationState
    lastDt,         \* the dt of the last advance_state call
    lastNeedReset,  \* need_reset as the last advance_state call found it
    nodes,          \* the node slice the AStarContext borrows
    ctx,            \* AStarContext: open_set, came_from, cost
    query,          \* the arguments of the last solve call
    path,           \* the Vec the last solve call returned
    mesh,           \* the vertex and index buffers of the navmesh primitive
    navmesh,        \* what get_navmesh made of them
    gpu,            \* the GL objects generated so far and the deletions of each
    renderer,       \* the Option<DeferredRenderer> the game state holds
    gl,             \* the GL and Allegro render state the passes set
    attach,         \* the contents of the G-buffer's attachments
    frame,          \* the number of the frame being drawn
    pass,           \* the last renderer call, the one before it and its outcome
    scene,          \* the objects of the Scene, in insertion order
    drawn,          \* the draw calls of the last Scene::draw and its outcome
    search,         \* one solve call inside its loops: search state, pops, walk steps
    cursors,        \* one advance_state call inside its loop: animation, state, iterations
    events,         \* the event queue of game_loop
    game,           \* the locals of game_loop and what its last iteration did
    sfx,            \* Sfx: exclusive_sounds and exclusive_instance
    sounds          \* the exclusive sounds requested and taken up so far

animVars == <<state, aborted, lastOp, lastDt, lastNeedReset>>

astarVars == <<nodes, ctx, query, path>>

navVars == <<mesh, navmesh>>

deferredVars == <<gpu, renderer, gl, attach, frame, pass>>

drawVars == <<scene, drawn>>

searchVars == <<search>>

cursorVars == <<cursors>>

gameLoopVars == <<events, game>>

sfxVars == <<sfx, sounds>>

vars == <<state, aborted, lastOp, lastDt, lastNeedReset, nodes, ctx, query, path,
          mesh, navmesh, gpu, renderer, gl, attach, frame, pass, scene, drawn,
          search, cursors, events, game, sfx, sounds>>

\* The variables the animation calls leave alone.
notAnimVars == <<astarVars, navVars, deferredVars, drawVars, searchVars, cursorVars, gameLoopVars, sfxVars>>

\* The variables solve leaves alone.
notAStarVars == <<animVars, navVars, deferredVars, drawVars, searchVars, cursorVars, gameLoopVars, sfxVars>>

\* The variables get_navmesh leaves alone.
notNavVars == <<animVars, astarVars, deferredVars, drawVars, searchVars, cursorVars, gameLoopVars, sfxVars>>

\* The variables the renderer calls leave alone.
notDeferredVars == <<animVars, astarVars, navVars, drawVars, searchVars, cursorVars, gameLoopVars, sfxVars>>

\* The variables Scene::draw leaves alone.
notDrawVars == <<animVars, astarVars, navVars, deferredVars, searchVars, cursorVars, gameLoopVars, sfxVars>>

\* The variables an iteration of the cursor loop leaves alone.
notCursorVars == <<animVars, astarVars, navVars, deferredVars, drawVars, searchVars, gameLoopVars, sfxVars>>

\* The variables game_loop leaves alone.
notGameLoopVars == <<animVars, astarVars, navVars, deferredVars, drawVars, searchVars, cursorVars, sfxVars>>

\* The variables the Sfx calls leave alone.
notSfxVars == <<animVars, astarVars, navVars, deferredVars, drawVars, searchVars, cursorVars, gameLoopVars>>

\* The variables a step of solve leaves alone.
notSearchVars == <<animVars, navVars, deferredVars, drawVars, cursorVars, gameLoopVars, sfxVars>>

\* Largest dt (in half units) of one advance_state call.
MaxDt == 5

\* advance_state is not called once it would carry animation_progress past this.
MaxProgress == 9

Min(a, b) == IF a < b THEN a ELSE b

Key(t, v) == [t |-> t, v |-> v]

\* Animation::new followed by compute_start_end: end is the largest last
\* timestamp of the non-empty tracks, 0 when every track is empty.
compute_start_end(anim) ==
    LET lastT(track) == IF track = <<>> THEN {} ELSE {track[Len(track)].t}
        ends == lastT(anim.pos_track) \cup lastT(anim.rot_track) \cup lastT(anim.scale_track)
    IN  [anim EXCEPT !.end = IF ends = {} THEN 0
                              ELSE CHOOSE m \in ends : \A e \in ends : e <= m]

Animation(pos_track, rot_track, scale_track) ==
    compute_start_end([end |-> 0, pos_track |-> pos_track,
                       rot_track |-> rot_track, scale_track |-> scale_track])

\* The object: its static transform and its animation map.
\*   walk: the two-keyframe position track at times 0 and 1 (end = 1.0)
\*   spin: three position keyframes and two rotation keyframes (end = 1.5)
\*   idle: single-keyframe position, rotation and scale tracks (end = 1.0)
\*   grow: a scale track and no position track
Object ==
    [pos |-> 100, rot |-> 200, scale |-> 300,
     animations |->
        [walk |-> Animation(<<Key(0, 0), Key(2, 10)>>, <<>>, <<>>),
         spin |-> Animation(<<Key(0, 0), Key(1, 4), Key(3, 8)>>,
                            <<Key(0, 0), Key(3, 6)>>, <<>>),
         idle |-> Animation(<<Key(0, 7)>>, <<Key(2, 9)>>, <<Key(0, 3)>>),
         grow |-> Animation(<<>>, <<>>, <<Key(0, 1), Key(2, 2)>>)]]

AnimationNames == DOMAIN Object.animations

\* The names a caller may pass: the object's animations and one it lacks.
RequestNames == AnimationNames \cup {"none"}

\* AnimationState::new
AnimationState_new(animation_name, once) ==
    [animation_name |-> animation_name,
     new_animation_name |-> animation_name,
     animation_progress |-> 0,
     once |-> once,
     pos_frame_idx |-> 0,
     rot_frame_idx |-> 0,
     scale_frame_idx |-> 0,
     num_loops |-> 0,
     need_reset |-> FALSE,
     done |-> FALSE]

\* AnimationState::reset
reset(s) == [s EXCEPT !.need_reset = TRUE]

\* set_new_animation that switches at once instead of deferring the switch.
set_new_animation_now(s, name) ==
    [s EXCEPT !.new_animation_name = name, !.animation_name = name]

\* AnimationState::set_new_animation
set_new_animation(s, name) == [s EXCEPT !.new_animation_name = name]

\* AnimationState::get_num_loops
get_num_loops(s) == s.num_loops

\* track[idx as usize] of a Vec: a panic when idx is past the end.
InBounds(track, idx) == idx >= 0 /\ idx < Len(track)

At(track, idx) == track[idx + 1]

Hold(v) == <<v, 1>>

\* cur.1 + f * (next.1 - cur.1) with f = (progress - cur.0) / (next.0 - cur.0)
Lerp(cur, next, progress) ==
    <<cur.v * (next.t - cur.t) + (progress - cur.t) * (next.v - cur.v), next.t - cur.t>>

\* One component of get_animation_position: [panic, value].
TrackValue(track, idx, progress, static) ==
    IF track = <<>>
    THEN [panic |-> FALSE, value |-> Hold(static)]
    ELSE IF ~InBounds(track, idx)
    THEN [panic |-> TRUE, value |-> Hold(static)]
    ELSE IF idx + 1 >= Len(track)
    THEN [panic |-> FALSE, value |-> Hold(At(track, idx).v)]
    ELSE [panic |-> FALSE, value |-> Lerp(At(track, idx), At(track, idx + 1), progress)]

\* Object::get_animation_position
get_animation_position(s) ==
    IF s.animation_name \notin AnimationNames
    THEN [panic |-> TRUE, pos |-> Hold(0), rot |-> Hold(0), scale |-> Hold(0)]
    ELSE LET animation == Object.animations[s.animation_name]
             p == TrackValue(animation.pos_track, s.pos_frame_idx,
                             s.animation_progress, Object.pos)
             r == TrackValue(animation.rot_track, s.rot_frame_idx,
                             s.animation_progress, Object.rot)
             c == TrackValue(animation.scale_track, s.scale_frame_idx,
                             s.animation_progress, Object.scale)
         IN  [panic |-> p.panic \/ r.panic \/ c.panic,
              pos |-> p.value, rot |-> r.value, scale |-> c.value]

\* The position-cursor step of the loop (also run, as in the source, by the
\* scale-track block): [panic, idx].
AdvancePosCursor(animation, s) ==
    IF ~InBounds(animation.pos_track, s.pos_frame_idx)
    THEN [panic |-> TRUE, idx |-> s.pos_frame_idx]
    ELSE [panic |-> FALSE,
          idx |-> IF s.animation_progress > At(animation.pos_track, s.pos_frame_idx).t
                  THEN Min(s.pos_frame_idx + 1, Len(animation.pos_track) - 1)
                  ELSE s.pos_frame_idx]

AdvanceRotCursor(animation, s) ==
    IF ~InBounds(animation.rot_track, s.rot_frame_idx)
    THEN [panic |-> TRUE, idx |-> s.rot_frame_idx]
    ELSE [panic |-> FALSE,
          idx |-> IF s.animation_progress > At(animation.rot_track, s.rot_frame_idx).t
                  THEN Min(s.rot_frame_idx + 1, Len(animation.rot_track) - 1)
                  ELSE s.rot_frame_idx]

\* The end-of-animation test of one loop iteration.
EndOfAnimation(animation, s) ==
    IF s.animation_progress > animation.end
    THEN LET counted == IF ~s.done THEN [s EXCEPT !.num_loops = @ + 1] ELSE s
         IN  IF s.once
             THEN [counted EXCEPT !.done = TRUE]
             ELSE [counted EXCEPT !.pos_frame_idx = 0,
                                  !.rot_frame_idx = 0,
                                  !.scale_frame_idx = 0,
                                  !.animation_progress = @ - animation.end]
    ELSE s

\* One iteration of the loop of advance_state: [panic, exit, st].  exit is the
\* break test: no cursor differs from its value at the top of the iteration.
LoopBody(animation, s) ==
    LET p1 == IF animation.pos_track # <<>>
              THEN AdvancePosCursor(animation, s)
              ELSE [panic |-> FALSE, idx |-> s.pos_frame_idx]
        s1 == [s EXCEPT !.pos_frame_idx = p1.idx]
        r1 == IF animation.rot_track # <<>>
              THEN AdvanceRotCursor(animation, s1)
              ELSE [panic |-> FALSE, idx |-> s1.rot_frame_idx]
        s2 == [s1 EXCEPT !.rot_frame_idx = r1.idx]
        p2 == IF animation.scale_track # <<>>
              THEN AdvancePosCursor(animation, s2)
              ELSE [panic |-> FALSE, idx |-> s2.pos_frame_idx]
        s3 == [s2 EXCEPT !.pos_frame_idx = p2.idx]
        s4 == EndOfAnimation(animation, s3)
    IN  IF p1.panic THEN [panic |-> TRUE, exit |-> FALSE, st |-> s]
        ELSE IF r1.panic THEN [panic |-> TRUE, exit |-> FALSE, st |-> s1]
        ELSE IF p2.panic THEN [panic |-> TRUE, exit |-> FALSE, st |-> s2]
        ELSE [panic |-> FALSE,
              exit |-> /\ s.pos_frame_idx = s4.pos_frame_idx
                       /\ s.rot_frame_idx = s4.rot_frame_idx
                       /\ s.scale_frame_idx = s4.scale_frame_idx,
              st |-> s4]

\* The loop of advance_state: [panic, st].
RECURSIVE AdvanceLoop(_, _)
AdvanceLoop(animation, s) ==
    LET b == LoopBody(animation, s)
    IN  IF b.panic \/ b.exit
        THEN [panic |-> b.panic, st |-> b.st]
        ELSE AdvanceLoop(animation, b.st)

\* A switch block that keeps the elapsed progress.
ResetActivationsKeepProgress(s) ==
    [s EXCEPT !.animation_name = s.new_animation_name,
              !.pos_frame_idx = 0,
              !.rot_frame_idx = 0,
              !.scale_frame_idx = 0,
              !.need_reset = FALSE,
              !.done = FALSE]

\* The switch block of advance_state.
ResetActivations(s) ==
    [s EXCEPT !.animation_name = s.new_animation_name,
              !.pos_frame_idx = 0,
              !.rot_frame_idx = 0,
              !.scale_frame_idx = 0,
              !.animation_progress = 0,
              !.need_reset = FALSE,
              !.done = FALSE]

\* The animation the loop of advance_state runs on: looked up under the name
\* that is active when the call starts, before the switch block.
LookupName(s) == s.animation_name

\* Object::advance_state: [panic, st].
advance_state(s, amount) ==
    LET s0 == [s EXCEPT !.num_loops = 0]
        reset_activations == (s.animation_name # s.new_animation_name) \/ s.need_reset
    IN  IF LookupName(s) \notin AnimationNames
        THEN [panic |-> TRUE, st |-> s0]
        ELSE LET animation == Object.animations[LookupName(s)]
                 s1 == IF reset_activations THEN ResetActivations(s0) ELSE s0
                 s2 == [s1 EXCEPT !.animation_progress = @ + amount]
             IN  AdvanceLoop(animation, s2)

----------------------------------------------------------------------------
\* The calls a game entity makes on its AnimationState.

AnimInit ==
    /\ aborted = FALSE
    /\ lastOp = "new"
    /\ lastDt = 0
    /\ lastNeedReset = FALSE

AStarIdle ==
    /\ nodes = <<>>
    /\ ctx = [open_set |-> {}, came_from |-> <<>>, cost |-> <<>>]
    /\ query = [solved |-> FALSE]
    /\ path = <<>>

\* No navmesh has been built.
NavIdle ==
    /\ mesh = [vtxs |-> <<>>, idxs |-> <<>>]
    /\ navmesh = [status |-> "none", nodes |-> <<>>]

\* The fields of GBuffer that name a GL object.
Fields ==
    {"frame_buffer", "position_tex", "normal_tex", "albedo_tex", "light_tex",
     "depth_render_buffer"}

\* The attachments of the G-buffer's framebuffer: the four colour textures
\* and the depth renderbuffer.
Attachments == Fields \ {"frame_buffer"}

\* Storage that TexImage2D or RenderbufferStorage has allocated and nothing
\* has written.
Undefined == [value |-> "undefined", frame |-> 0]

\* The display has been created and no renderer yet.
DeferredIdle ==
    /\ gpu = [creates |-> 0, deletes |-> <<>>]
    /\ renderer = [some |-> FALSE, g_buffer |-> 0]
    /\ gl = [draw_fb |-> <<"backbuffer", 0>>,
             read_fb |-> <<"backbuffer", 0>>,
             draw_buffers |-> {},
             cull_face |-> "Disabled",
             depth_mask |-> TRUE,
             blender |-> <<"One", "InverseAlpha">>,
             depth_test |-> "None",
             shader |-> "default",
             units |-> <<>>]
    /\ attach = [a \in Attachments |-> Undefined]
    /\ frame = 1
    /\ pass = [op |-> "none", prev |-> "none", phase |-> "none", result |-> "Ok",
               light_sampled |-> Undefined]

\* No scene has been loaded.
DrawIdle ==
    /\ scene = <<>>
    /\ drawn = [by |-> "none", textures |-> {}, calls |-> <<>>, result |-> "none"]

\* No solve call is inside its loops.
SearchIdle == search = [pc |-> "none"]

\* Option::None, and Some of a sample instance that plays the named sample.
None == [some |-> FALSE, name |-> "", playing |-> FALSE]

Some(name, playing) == [some |-> TRUE, name |-> name, playing |-> playing]

\* No advance_state call is inside its loop.
CursorIdle == cursors = [pc |-> "none"]

\* game_loop has not been entered.
GameLoopIdle ==
    /\ events = <<>>
    /\ game = [pc |-> "none"]

\* No Sfx has been constructed.
SfxIdle ==
    /\ sfx = [exclusive_sounds |-> <<>>, exclusive_instance |-> None]
    /\ sounds = [requested |-> <<>>, taken |-> <<>>, started |-> <<>>, last |-> "none"]

\* The parts of the program that the animation, the solver, the navmesh
\* builder, the renderer and scene drawing do not touch.
OthersIdle ==
    /\ SearchIdle
    /\ CursorIdle
    /\ GameLoopIdle
    /\ SfxIdle

Init ==
    /\ \E name \in AnimationNames, once \in BOOLEAN :
          state = AnimationState_new(name, once)
    /\ AnimInit
    /\ AStarIdle
    /\ NavIdle
    /\ DeferredIdle
    /\ DrawIdle
    /\ OthersIdle

Reset ==
    /\ ~aborted
    /\ state' = reset(state)
    /\ lastOp' = "reset"
    /\ lastDt' = 0
    /\ UNCHANGED <<aborted, lastNeedReset>>
    /\ UNCHANGED notAnimVars

SetNewAnimation ==
    /\ ~aborted
    /\ \E name \in RequestNames : state' = set_new_animation(state, name)
    /\ lastOp' = "set_new_animation"
    /\ lastDt' = 0
    /\ UNCHANGED <<aborted, lastNeedReset>>
    /\ UNCHANGED notAnimVars

AdvanceState ==
    /\ ~aborted
    /\ \E dt \in 0..MaxDt :
          /\ state.animation_progress + dt <= MaxProgress
          /\ LET r == advance_state(state, dt)
             IN  /\ state' = r.st
                 /\ aborted' = r.panic
          /\ lastDt' = dt
    /\ lastOp' = "advance_state"
    /\ lastNeedReset' = state.need_reset
    /\ UNCHANGED notAnimVars

GetAnimationPosition ==
    /\ ~aborted
    /\ aborted' = get_animation_position(state).panic
    /\ lastOp' = "get_animation_position"
    /\ lastDt' = 0
    /\ UNCHANGED <<state, lastNeedReset>>
    /\ UNCHANGED notAnimVars

Next == Reset \/ SetNewAnimation \/ AdvanceState \/ GetAnimationPosition

Spec == Init /\ [][Next]_vars

----------------------------------------------------------------------------
\* The A* solver.  A point is <<x, y, z>> with integer coordinates; an f32
\* length or cost c is the integer floor(c * Precision).

\* Fixed-point digits of a length: 1.0 is Precision.
Precision == 1000

\* Query points have coordinates in 0..GridMax.
GridMax == 1

\* The g-score every node starts a solve with (1e6).
UnvisitedCost == 1000000

\* floor(sqrt(x)), searched in lo..hi.
RECURSIVE ISqrtIn(_, _, _)
ISqrtIn(x, lo, hi) ==
    IF lo >= hi THEN lo
    ELSE LET mid == (lo + hi + 1) \div 2
         IN  IF mid * mid <= x THEN ISqrtIn(x, mid, hi) ELSE ISqrtIn(x, lo, mid - 1)

\* Coordinates of nodes and query points lie in 0..Span.
Span == IF GridMax > 1 THEN GridMax ELSE 1

\* The length of a vector of squared length d2, for every d2 that occurs.
Length[d2 \in 0..(3 * Span * Span)] ==
    ISqrtIn(d2 * Precision * Precision, 0, 2 * Span * Precision)

\* (a - b).norm()
Norm(a, b) ==
    LET dx == a[1] - b[1]
        dy == a[2] - b[2]
        dz == a[3] - b[3]
    IN  Length[dx * dx + dy * dy + dz * dz]

NavNode(pos, neighbours) == [pos |-> pos, neighbours |-> neighbours]

\* Node slices (index i of the source is element i + 1):
\*   square: N0..N3 on the corners of a unit square, each linked to the two
\*           corners it shares an edge with
\*   chain:  three nodes linked in a row around three corners of the square
\*   split:  two linked pairs with no link between the pairs
Graphs ==
    [square |-> <<NavNode(<<0, 0, 0>>, <<1, 3>>), NavNode(<<1, 0, 0>>, <<0, 2>>),
                  NavNode(<<1, 1, 0>>, <<1, 3>>), NavNode(<<0, 1, 0>>, <<0, 2>>)>>,
     chain  |-> <<NavNode(<<0, 0, 0>>, <<1>>), NavNode(<<1, 0, 0>>, <<0, 2>>),
                  NavNode(<<1, 1, 0>>, <<1>>)>>,
     split  |-> <<NavNode(<<0, 0, 0>>, <<1>>), NavNode(<<1, 0, 0>>, <<0>>),
                  NavNode(<<0, 1, 0>>, <<3>>), NavNode(<<1, 1, 0>>, <<2>>)>>]

Points == {<<x, y, 0>> : x \in 0..GridMax, y \in 0..GridMax}

\* The cost_fn closures a caller passes:
\*   uniform: 1 per edge
\*   length:  the edge's length
\*   toll:    the edge's length, and 2 more to enter the node at (1, 0, 0)
\*   blocked: 1e6 per edge
CostFns == {"uniform", "length", "toll", "blocked"}

cost_fn(kind, a, b) ==
    CASE kind = "uniform" -> Precision
      [] kind = "length" -> Norm(a.pos, b.pos)
      [] kind = "toll" -> Norm(a.pos, b.pos) + (IF b.pos = <<1, 0, 0>> THEN 2 * Precision ELSE 0)
      [] kind = "blocked" -> UnvisitedCost * Precision
      [] kind = "free" -> 0

\* AStarContext::new
AStarContext_new(ns) ==
    [open_set |-> {},
     came_from |-> [i \in 1..Len(ns) |-> -1],
     cost |-> [i \in 1..Len(ns) |-> 0]]

\* AStarContext::heuristic
heuristic(ns, from, to) == Norm(ns[from + 1].pos, ns[to + 1].pos)

\* pos_to_idx with the comparison turned round: the first node at the
\* greatest distance.
pos_to_idx_farthest(ns, pos) ==
    IF Len(ns) = 0 THEN -1
    ELSE CHOOSE i \in 0..(Len(ns) - 1) :
            /\ \A j \in 0..(Len(ns) - 1) : Norm(pos, ns[i + 1].pos) >= Norm(pos, ns[j + 1].pos)
            /\ \A j \in 0..(i - 1) : Norm(pos, ns[j + 1].pos) < Norm(pos, ns[i + 1].pos)

\* AStarContext::pos_to_idx: the first node at the least distance (-1: None).
pos_to_idx(ns, pos) ==
    IF Len(ns) = 0 THEN -1
    ELSE CHOOSE i \in 0..(Len(ns) - 1) :
            /\ \A j \in 0..(Len(ns) - 1) : Norm(pos, ns[i + 1].pos) <= Norm(pos, ns[j + 1].pos)
            /\ \A j \in 0..(i - 1) : Norm(pos, ns[j + 1].pos) > Norm(pos, ns[i + 1].pos)

\* AStarContext::idx_to_pos
idx_to_pos(ns, idx) == ns[idx + 1].pos

NodeAndScore(idx, f_score) == [idx |-> idx, f_score |-> f_score]

\* The entries of the greatest f_score: BinaryHeap::pop under an ordering that
\* is not reversed.
PopGreatest(open_set) == {e \in open_set : \A o \in open_set : e.f_score >= o.f_score}

\* The entries BinaryHeap::pop may return under NodeAndScore's reversed
\* ordering: those of the least f_score (the order among equal scores is the
\* heap's own).
PopCandidates(open_set) == {e \in open_set : \A o \in open_set : e.f_score <= o.f_score}

\* The predecessor walk that returns the points in start-to-goal order.
RECURSIVE WalkBackForward(_, _, _, _, _)
WalkBackForward(ns, came_from, cur_idx, from_idx, acc) ==
    LET prev == came_from[cur_idx + 1]
        grown == <<idx_to_pos(ns, prev)>> \o acc
    IN  IF prev = from_idx THEN grown
        ELSE WalkBackForward(ns, came_from, prev, from_idx, grown)

\* A walk that pushes the start node at once, whatever the predecessors are.
WalkBackDirect(ns, came_from, cur_idx, from_idx, acc) ==
    Append(acc, idx_to_pos(ns, from_idx))

\* The predecessor walk of both reconstructions: push the predecessor's
\* position until the start node has been pushed.
RECURSIVE WalkBack(_, _, _, _, _)
WalkBack(ns, came_from, cur_idx, from_idx, acc) ==
    LET prev == came_from[cur_idx + 1]
        grown == Append(acc, idx_to_pos(ns, prev))
    IN  IF prev = from_idx THEN grown
        ELSE WalkBack(ns, came_from, prev, from_idx, grown)

\* A relaxation that leaves the neighbour loop after the k-th neighbour.
RelaxOne(ns, c, cur_idx, k, to_idx, kind) ==
    LET neighbours == ns[cur_idx + 1].neighbours
    IN  IF k > Len(neighbours) THEN c
        ELSE LET next_idx == neighbours[k]
                 new_cost == c.cost[cur_idx + 1]
                                + cost_fn(kind, ns[cur_idx + 1], ns[next_idx + 1])
                 new_heuristic == heuristic(ns, next_idx, to_idx)
                 better == new_heuristic < c.best_score_so_far
             IN  IF new_cost < c.cost[next_idx + 1]
                 THEN [c EXCEPT
                         !.best_score_so_far = IF better THEN new_heuristic ELSE @,
                         !.best_idx_so_far = IF better THEN next_idx ELSE @,
                         !.came_from[next_idx + 1] = cur_idx,
                         !.cost[next_idx + 1] = new_cost,
                         !.open_set = @ \cup
                             {NodeAndScore(next_idx, new_cost + new_heuristic)}]
                 ELSE c

\* A relaxation that also takes a neighbour whose cost it only equals.
RECURSIVE RelaxNotStrict(_, _, _, _, _, _)
RelaxNotStrict(ns, c, cur_idx, k, to_idx, kind) ==
    LET neighbours == ns[cur_idx + 1].neighbours
    IN  IF k > Len(neighbours) THEN c
        ELSE LET next_idx == neighbours[k]
                 new_cost == c.cost[cur_idx + 1]
                                + cost_fn(kind, ns[cur_idx + 1], ns[next_idx + 1])
             IN  IF new_cost <= c.cost[next_idx + 1]
                 THEN LET new_heuristic == heuristic(ns, next_idx, to_idx)
                          better == new_heuristic < c.best_score_so_far
                      IN  RelaxNotStrict(ns,
                                [c EXCEPT
                                   !.best_score_so_far = IF better THEN new_heuristic ELSE @,
                                   !.best_idx_so_far = IF better THEN next_idx ELSE @,
                                   !.came_from[next_idx + 1] = cur_idx,
                                   !.cost[next_idx + 1] = new_cost,
                                   !.open_set = @ \cup
                                       {NodeAndScore(next_idx, new_cost + new_heuristic)}],
                                cur_idx, k + 1, to_idx, kind)
                 ELSE RelaxNotStrict(ns, c, cur_idx, k + 1, to_idx, kind)

\* The relaxation of cur's neighbours from the k-th on; c is the search state
\* (the context's buffers, best_score_so_far and best_idx_so_far).
RECURSIVE Relax(_, _, _, _, _, _)
Relax(ns, c, cur_idx, k, to_idx, kind) ==
    LET neighbours == ns[cur_idx + 1].neighbours
    IN  IF k > Len(neighbours) THEN c
        ELSE LET next_idx == neighbours[k]
                 new_cost == c.cost[cur_idx + 1]
                                + cost_fn(kind, ns[cur_idx + 1], ns[next_idx + 1])
             IN  IF new_cost < c.cost[next_idx + 1]
                 THEN LET new_heuristic == heuristic(ns, next_idx, to_idx)
                          better == new_heuristic < c.best_score_so_far
                      IN  Relax(ns,
                                [c EXCEPT
                                   !.best_score_so_far = IF better THEN new_heuristic ELSE @,
                                   !.best_idx_so_far = IF better THEN next_idx ELSE @,
                                   !.came_from[next_idx + 1] = cur_idx,
                                   !.cost[next_idx + 1] = new_cost,
                                   !.open_set = @ \cup
                                       {NodeAndScore(next_idx, new_cost + new_heuristic)}],
                                cur_idx, k + 1, to_idx, kind)
                 ELSE Relax(ns, c, cur_idx, k + 1, to_idx, kind)

Outcome(c, p) ==
    [path |-> p,
     ctx |-> [open_set |-> c.open_set, came_from |-> c.came_from, cost |-> c.cost]]

\* The while loop of solve and the fallback after it: the set of outcomes
\* [path, ctx], one for each order in which equal f-scores can be popped.
RECURSIVE SolveLoop(_, _, _, _, _, _)
SolveLoop(ns, c, from_idx, to_idx, to, kind) ==
    IF c.open_set = {}
    THEN IF c.best_idx_so_far > -1
         THEN {Outcome(c, WalkBack(ns, c.came_from, c.best_idx_so_far, from_idx,
                                   <<idx_to_pos(ns, c.best_idx_so_far)>>))}
         ELSE {Outcome(c, <<>>)}
    ELSE UNION {
            LET popped == [c EXCEPT !.open_set = @ \ {cur}]
            IN  IF cur.idx = to_idx
                THEN {Outcome(popped, WalkBack(ns, popped.came_from, to_idx, from_idx, <<to>>))}
                ELSE SolveLoop(ns, Relax(ns, popped, cur.idx, 1, to_idx, kind),
                               from_idx, to_idx, to, kind)
            : cur \in PopCandidates(c.open_set)}

\* A best score that any relaxed node beats.
InitialBestScoreUnbounded(ns, from_idx, to_idx) == UnvisitedCost * Precision

\* best_score_so_far before the loop: the start node's own distance to the goal.
InitialBestScore(ns, from_idx, to_idx) == heuristic(ns, from_idx, to_idx)

\* AStarContext::solve on a non-empty node slice.
\* A start of solve that clears the costs and the open set and leaves the
\* predecessors of the call before.
SolveStartKeepCameFrom(ns, context, from, to) ==
    LET from_idx == pos_to_idx(ns, from)
        to_idx == pos_to_idx(ns, to)
        cleared == [open_set |-> {},
                    came_from |-> context.came_from,
                    cost |-> [i \in 1..Len(context.came_from) |-> UnvisitedCost * Precision]]
        started == [cleared EXCEPT
                      !.cost[from_idx + 1] = heuristic(ns, from_idx, from_idx),
                      !.came_from[from_idx + 1] = from_idx,
                      !.open_set = {NodeAndScore(from_idx, heuristic(ns, from_idx, from_idx))}]
    IN  [open_set |-> started.open_set,
         came_from |-> started.came_from,
         cost |-> started.cost,
         best_score_so_far |-> InitialBestScore(ns, from_idx, to_idx),
         best_idx_so_far |-> -1]

\* solve up to its while loop: the cleared buffers with the start node entered.
SolveStart(ns, context, from, to) ==
    LET from_idx == pos_to_idx(ns, from)
        to_idx == pos_to_idx(ns, to)
        cleared == [open_set |-> {},
                    came_from |-> [i \in 1..Len(context.came_from) |-> -1],
                    cost |-> [i \in 1..Len(context.came_from) |-> UnvisitedCost * Precision]]
        started == [cleared EXCEPT
                      !.cost[from_idx + 1] = heuristic(ns, from_idx, from_idx),
                      !.came_from[from_idx + 1] = from_idx,
                      !.open_set = {NodeAndScore(from_idx, heuristic(ns, from_idx, from_idx))}]
    IN  [open_set |-> started.open_set,
         came_from |-> started.came_from,
         cost |-> started.cost,
         best_score_so_far |-> InitialBestScore(ns, from_idx, to_idx),
         best_idx_so_far |-> -1]

solve(ns, context, from, to, kind) ==
    SolveLoop(ns, SolveStart(ns, context, from, to),
              pos_to_idx(ns, from), pos_to_idx(ns, to), to, kind)

AnimIdle ==
    /\ state = AnimationState_new("walk", FALSE)
    /\ AnimInit

AStarInit ==
    /\ \E g \in DOMAIN Graphs :
          /\ nodes = Graphs[g]
          /\ ctx = AStarContext_new(Graphs[g])
    /\ query = [solved |-> FALSE]
    /\ path = <<>>
    /\ AnimIdle
    /\ NavIdle
    /\ DeferredIdle
    /\ DrawIdle
    /\ OthersIdle

Solve ==
    \E from \in Points, to \in Points, kind \in CostFns :
       \E r \in solve(nodes, ctx, from, to, kind) :
          /\ path' = r.path
          /\ ctx' = r.ctx
          /\ query' = [solved |-> TRUE, from |-> from, to |-> to, cost_fn |-> kind]
          /\ UNCHANGED nodes
          /\ UNCHANGED notAStarVars

AStarNext == Solve

SpecAStar == AStarInit /\ [][AStarNext]_vars

----------------------------------------------------------------------------
\* Properties of the animation state machine.

ActiveAnimation == Object.animations[state.animation_name]

\* Two exact rationals <<n, d>> with d > 0 are the same number.
RatEq(a, b) == a[1] * b[2] = b[1] * a[2]

CursorInTrack(track, idx) == track # <<>> => InBounds(track, idx)

\* C1: after any sequence of set_new_animation, reset and advance_state calls
\* that request only names the object has, each of the three cursors is a valid
\* index into its non-empty track of the active animation, and no call has
\* indexed past a track's end (no panic).
C1_CursorsInBounds ==
    (state.animation_name \in AnimationNames /\ state.new_animation_name \in AnimationNames)
        => /\ ~aborted
           /\ CursorInTrack(ActiveAnimation.pos_track, state.pos_frame_idx)
           /\ CursorInTrack(ActiveAnimation.rot_track, state.rot_frame_idx)
           /\ CursorInTrack(ActiveAnimation.scale_track, state.scale_frame_idx)

\* C2: a freshly constructed looping state of walk (position keyframes P0 at
\* time 0 and P1 at time 1, end = 1) advanced once by dt = 0.5 evaluates to the
\* midpoint (P0 + P1) / 2, with the object's static rotation and scale.
C2_Midpoint ==
    (/\ lastOp = "advance_state"
     /\ lastDt = 1
     /\ ~aborted
     /\ state = advance_state(AnimationState_new("walk", FALSE), 1).st)
        => LET g == get_animation_position(state)
               track == Object.animations["walk"].pos_track
           IN  /\ ~g.panic
               /\ RatEq(g.pos, <<track[1].v + track[2].v, 2>>)
               /\ RatEq(g.rot, Hold(Object.rot))
               /\ RatEq(g.scale, Hold(Object.scale))

\* C3: after every advance_state call on an animation with end > 0,
\* animation_progress is in [0, end) when the animation loops and in [0, end]
\* when it is one-shot and done.
C3_ProgressRange ==
    (/\ lastOp = "advance_state"
     /\ ~aborted
     /\ state.animation_name \in AnimationNames
     /\ ActiveAnimation.end > 0)
        => /\ ~state.once =>
                 (0 <= state.animation_progress /\ state.animation_progress < ActiveAnimation.end)
           /\ (state.once /\ state.done) =>
                 (0 <= state.animation_progress /\ state.animation_progress <= ActiveAnimation.end)

\* C4: one advance_state(dt) call on a looping animation with end > 0 leaves
\* get_num_loops at floor((progress_before + dt) / end) - floor(progress_before / end),
\* progress_before being 0 when the call restarts playback.
C4_LoopCount ==
    [][(/\ lastOp' = "advance_state"
        /\ ~aborted'
        /\ ~state.once
        /\ state'.animation_name \in AnimationNames
        /\ Object.animations[state'.animation_name].end > 0)
          => LET end == Object.animations[state'.animation_name].end
                 before == IF state.animation_name # state.new_animation_name \/ state.need_reset
                           THEN 0
                           ELSE state.animation_progress
             IN  get_num_loops(state') = ((before + lastDt') \div end) - (before \div end)]_vars

\* C5: from any reachable state, advance_state(0) twice leaves the state that
\* advance_state(0) once leaves.
C5_ZeroIdempotent ==
    ~aborted =>
        LET once == advance_state(state, 0)
        IN  ~once.panic =>
                LET twice == advance_state(once.st, 0)
                IN  ~twice.panic /\ twice.st = once.st

SingleKeyHeld(track, value) == Len(track) = 1 => RatEq(value, Hold(track[1].v))

\* C6: in every reachable state whose active animation has a track of exactly
\* one keyframe, get_animation_position returns, and returns that keyframe's
\* value for that component.
C6_SingleKeyframe ==
    (/\ ~aborted
     /\ state.animation_name \in AnimationNames
     /\ \/ Len(ActiveAnimation.pos_track) = 1
        \/ Len(ActiveAnimation.rot_track) = 1
        \/ Len(ActiveAnimation.scale_track) = 1)
        => LET g == get_animation_position(state)
           IN  /\ ~g.panic
               /\ SingleKeyHeld(ActiveAnimation.pos_track, g.pos)
               /\ SingleKeyHeld(ActiveAnimation.rot_track, g.rot)
               /\ SingleKeyHeld(ActiveAnimation.scale_track, g.scale)

\* C7: set_new_animation changes the pending name only; the active name,
\* progress, cursors, done flag and loop counter keep their values and
\* get_animation_position returns what it returned before.  The active name
\* changes only in an advance_state call, which adopts the pending name.
C7_SetNewAnimationDeferred ==
    [][/\ lastOp' = "set_new_animation" =>
            /\ \A f \in DOMAIN state \ {"new_animation_name"} : state'[f] = state[f]
            /\ get_animation_position(state') = get_animation_position(state)
            /\ aborted' = aborted
       /\ lastOp' # "advance_state" => state'.animation_name = state.animation_name
       /\ (lastOp' = "advance_state" /\ ~aborted') =>
            state'.animation_name = state.new_animation_name]_vars

C7_Witness ==
    /\ lastOp = "set_new_animation"
    /\ state.new_animation_name # state.animation_name
    /\ state.animation_progress > 0
    /\ state.pos_frame_idx > 0
    /\ ~get_animation_position(state).panic

\* C8: the advance_state(dt) call after reset() restarts playback: need_reset
\* is consumed, done is set again only by a one-shot running past the end in
\* this call, progress is dt until a wrap, and with the name unchanged the
\* resulting state is that of a freshly constructed state advanced by dt.
\* need_reset is set by reset() alone.
C8_ResetRestarts ==
    [][/\ (lastOp' = "advance_state" /\ state.need_reset /\ ~aborted') =>
            /\ ~state'.need_reset
            /\ state'.done => (state.once /\ state'.num_loops = 1)
            /\ (state.once \/ state'.num_loops = 0) => state'.animation_progress = lastDt'
            /\ state.new_animation_name = state.animation_name =>
                 state' = advance_state(
                              AnimationState_new(state.animation_name, state.once), lastDt').st
       /\ (lastOp' = "advance_state" /\ ~aborted') => ~state'.need_reset
       /\ (state'.need_reset /\ ~state.need_reset) => lastOp' = "reset"]_vars

C8_Witness ==
    /\ lastOp = "advance_state"
    /\ lastNeedReset
    /\ ~aborted
    /\ state.once
    /\ ~state.done
    /\ lastDt > 0
    /\ state.animation_progress = lastDt
    /\ state.pos_frame_idx > 0

\* C9: in every reachable state that is not aborted the active animation name
\* is a key of the object's animation map.
C9_ActiveNamePresent == ~aborted => state.animation_name \in AnimationNames

----------------------------------------------------------------------------
\* Properties of the A* solver.

Square == Graphs["square"]

SquareDiagonal ==
    /\ nodes = Square
    /\ query.solved
    /\ query.from = Square[1].pos
    /\ query.to = Square[3].pos
    /\ query.cost_fn = "uniform"

\* C10: on the square with uniform edge cost 1, solve(pos(N0), pos(N2))
\* returns exactly three points in goal-to-start order: pos(N2), then pos(N1)
\* or pos(N3), then pos(N0).
C10_SquareDiagonalPath ==
    SquareDiagonal =>
        \/ path = <<Square[3].pos, Square[2].pos, Square[1].pos>>
        \/ path = <<Square[3].pos, Square[4].pos, Square[1].pos>>

C10_Witness == SquareDiagonal /\ Len(path) = 3 /\ path[1] = query.to

NodeIdxs(ns) == 0..(Len(ns) - 1)

Linked(ns, i, j) == \E k \in 1..Len(ns[i + 1].neighbours) : ns[i + 1].neighbours[k] = j

\* The nodes that can be reached from the nodes of seen along neighbour links.
RECURSIVE ReachFrom(_, _)
ReachFrom(ns, seen) ==
    LET more == seen \cup {j \in NodeIdxs(ns) : \E i \in seen : Linked(ns, i, j)}
    IN  IF more = seen THEN seen ELSE ReachFrom(ns, more)

Component(ns, i) == ReachFrom(ns, {i})

Connected(ns) == \A i \in NodeIdxs(ns) : Component(ns, i) = NodeIdxs(ns)

IsNodePos(ns, p) == \E i \in NodeIdxs(ns) : ns[i + 1].pos = p

\* p is the position of a node of ns than which no node is nearer to pos.
IsNearestNodePos(ns, p, pos) ==
    /\ IsNodePos(ns, p)
    /\ \A j \in NodeIdxs(ns) : Norm(pos, p) <= Norm(pos, ns[j + 1].pos)

\* C11 as stated: on a connected graph with uniform cost, the returned path
\* reversed starts at the position of the node nearest A and ends at the
\* position of the node nearest B.
C11_EndsAtNearestNodes ==
    (query.solved /\ Connected(nodes) /\ query.cost_fn = "uniform")
        => /\ path # <<>>
           /\ IsNearestNodePos(nodes, path[Len(path)], query.from)
           /\ IsNearestNodePos(nodes, path[1], query.to)

\* C11 amended: on a connected graph with uniform cost, the returned path
\* reversed starts at the position of the node nearest A and ends at the query
\* point B itself.
C11_EndsAtQueryPoint ==
    (query.solved /\ Connected(nodes) /\ query.cost_fn = "uniform")
        => /\ path # <<>>
           /\ IsNearestNodePos(nodes, path[Len(path)], query.from)
           /\ path[1] = query.to

C11_Witness ==
    /\ query.solved
    /\ Connected(nodes)
    /\ query.cost_fn = "uniform"
    /\ ~IsNodePos(nodes, query.to)
    /\ Len(path) = 3
    /\ path[1] = query.to

NodeAtPos(ns, p) == CHOOSE i \in NodeIdxs(ns) : ns[i + 1].pos = p

\* C12 as stated: each consecutive pair of points of a returned path are the
\* positions of two distinct nodes, the second of which lists the first as a
\* neighbour.
C12_StepsAreLinks ==
    query.solved =>
        \A k \in 1..(Len(path) - 1) :
            \E i, j \in NodeIdxs(nodes) :
                /\ i # j
                /\ nodes[i + 1].pos = path[k]
                /\ nodes[j + 1].pos = path[k + 1]
                /\ Linked(nodes, j, i)

\* The node the k-th point of the returned path stands for: the first point
\* of a path that reached the goal is the query point B, for the node B snaps to.
PathNode(k) ==
    IF k = 1 /\ path[1] = query.to
    THEN pos_to_idx(nodes, query.to)
    ELSE NodeAtPos(nodes, path[k])

\* C12 amended: every point after the first is a node position, and the first
\* is the query point B or a node position.  When A and B snap to the same
\* node the path is B followed by that node's position; otherwise each
\* consecutive pair stands for two distinct nodes, the second of which lists
\* the first as a neighbour.
C12_StepsAreLinksFromGoalNode ==
    (query.solved /\ path # <<>>) =>
        /\ \A k \in 2..Len(path) : IsNodePos(nodes, path[k])
        /\ path[1] = query.to \/ IsNodePos(nodes, path[1])
        /\ IF pos_to_idx(nodes, query.from) = pos_to_idx(nodes, query.to)
           THEN path = <<query.to, idx_to_pos(nodes, pos_to_idx(nodes, query.from))>>
           ELSE \A k \in 1..(Len(path) - 1) :
                    /\ PathNode(k) # PathNode(k + 1)
                    /\ Linked(nodes, PathNode(k + 1), PathNode(k))

C12_Witness ==
    /\ query.solved
    /\ pos_to_idx(nodes, query.from) # pos_to_idx(nodes, query.to)
    /\ Len(path) = 3
    /\ path[1] = query.to
    /\ query.cost_fn = "toll"

FromIdx == pos_to_idx(nodes, query.from)

ToIdx == pos_to_idx(nodes, query.to)

\* The open set emptied before the goal node was popped: the goal node was
\* never given a predecessor.
Exhausted == query.solved /\ ctx.came_from[ToIdx + 1] = -1

\* The nodes the last solve gave a predecessor and a cost.
RelaxedNodes == {i \in NodeIdxs(nodes) : i # FromIdx /\ ctx.came_from[i + 1] # -1}

InStartComponent(p) ==
    \E i \in Component(nodes, FromIdx) : nodes[i + 1].pos = p

Sentinel == UnvisitedCost * Precision

\* a + b, held at the sentinel.
SatAdd(a, b) == Min(a + b, Sentinel)

LeastOf(S) == CHOOSE x \in S : \A y \in S : x <= y

\* The least total cost_fn of a neighbour-link path of at most k links from
\* node i to node j, held at the sentinel; the sentinel when there is none.
RECURSIVE CheapestWithin(_, _, _, _, _)
CheapestWithin(ns, kind, i, j, k) ==
    IF i = j THEN 0
    ELSE IF k = 0 THEN Sentinel
    ELSE LET neighbours == ns[i + 1].neighbours
         IN  LeastOf({Sentinel} \cup
                     {SatAdd(cost_fn(kind, ns[i + 1], ns[neighbours[n] + 1]),
                             CheapestWithin(ns, kind, neighbours[n], j, k - 1)) :
                        n \in 1..Len(neighbours)})

Cheapest(ns, kind, i, j) == CheapestWithin(ns, kind, i, j, Len(ns) - 1)

GoalPathReturned ==
    /\ ~Exhausted
    /\ path # <<>>
    /\ path[1] = query.to
    /\ path[Len(path)] = nodes[FromIdx + 1].pos

\* C14 as stated: whenever the goal node can be reached from the start node
\* along neighbour links, solve returns the path that reaches the goal (first
\* the goal point, last the start node's position), whatever the cost function.
C14_ReachableGoalReached ==
    (query.solved /\ ToIdx \in Component(nodes, FromIdx)) => GoalPathReturned

\* C14 amended: whenever the goal node can be reached from the start node by a
\* neighbour-link path whose total cost is below the cost every unvisited node
\* starts with, solve returns the path that reaches the goal.
C14_AffordableGoalReached ==
    (query.solved /\ Cheapest(nodes, query.cost_fn, FromIdx, ToIdx) < Sentinel)
        => GoalPathReturned

C14_Witness ==
    /\ query.solved
    /\ query.cost_fn = "length"
    /\ FromIdx # ToIdx
    /\ Cheapest(nodes, query.cost_fn, FromIdx, ToIdx) = 2 * Precision
    /\ GoalPathReturned
    /\ Len(path) = 3

\* cost_fn is never smaller than the distance between the two nodes of a link.
Admissible(ns, kind) ==
    \A i, j \in NodeIdxs(ns) :
        Linked(ns, i, j) => cost_fn(kind, ns[i + 1], ns[j + 1]) >= Norm(ns[i + 1].pos, ns[j + 1].pos)

\* The total cost_fn of the returned path, walked from the start node to the
\* goal node.
RECURSIVE PathCostFrom(_)
PathCostFrom(k) ==
    IF k >= Len(path) THEN 0
    ELSE cost_fn(query.cost_fn, nodes[PathNode(k + 1) + 1], nodes[PathNode(k) + 1])
            + PathCostFrom(k + 1)

PathCost == IF FromIdx = ToIdx THEN 0 ELSE PathCostFrom(1)

\* C15: when the goal is reached under a cost function that is never smaller
\* than the distance between the two nodes of a link, the returned path has
\* the least total cost among the neighbour-link paths from the start node to
\* the goal node, for every order in which equal f-scores are popped.
C15_LeastCost ==
    (query.solved /\ ~Exhausted /\ Admissible(nodes, query.cost_fn)) =>
        /\ PathCost = Cheapest(nodes, query.cost_fn, FromIdx, ToIdx)
        /\ ctx.cost[ToIdx + 1] = PathCost

C15_Witness ==
    /\ query.solved
    /\ ~Exhausted
    /\ query.cost_fn = "toll"
    /\ nodes = Square
    /\ query.from = <<0, 0, 0>>
    /\ query.to = <<1, 1, 0>>
    /\ path = <<<<1, 1, 0>>, <<0, 1, 0>>, <<0, 0, 0>>>>
    /\ PathCost = 2 * Precision

----------------------------------------------------------------------------
\* get_navmesh: the navigation graph of a triangle mesh.

\* Coordinates are counted in 1/TolUnits of the welding tolerance tol.
TolUnits == 2

\* The index buffer holds at most MaxIdxs indices.
MaxIdxs == 6

\* (c / tol) as i32: the quotient, truncated towards zero.
Truncate(c) == IF c >= 0 THEN c \div TolUnits ELSE -((-c) \div TolUnits)

get_vtx_id(pos) == <<Truncate(pos[1]), Truncate(pos[2]), Truncate(pos[3])>>

\* The position buffers read: a quad of four separate corners, a triangle
\* whose first corner comes a second time within the tolerance, and a triangle.
VertexBuffers ==
    <<  <<<<0, 0, 0>>, <<4, 0, 0>>, <<4, 4, 0>>, <<0, 4, 0>>>>,
        <<<<0, 0, 0>>, <<4, 0, 0>>, <<0, 4, 0>>, <<-1, 1, 0>>>>,
        <<<<0, 0, 0>>, <<4, 0, 0>>, <<0, 4, 0>>>>  >>

\* The values an index can have: one for each vertex of the longest buffer.
IndexValues == 0..(Len(VertexBuffers[1]) - 1)

\* The index buffers read: any length up to MaxIdxs, a multiple of 3 or not.
IndexBuffers == UNION {[1..n -> IndexValues] : n \in 0..MaxIdxs}

\* The welding loop from vertex old_idx on.  w.ids lists the vertex ids in the
\* order of the new indices given to them (vtx_id_to_new_idx, with cur_idx
\* its length).
RECURSIVE Weld(_, _, _)
Weld(vtxs, old_idx, w) ==
    IF old_idx >= Len(vtxs) THEN w
    ELSE LET vtx_id == get_vtx_id(vtxs[old_idx + 1])
             known == {k \in 1..Len(w.ids) : w.ids[k] = vtx_id}
         IN  IF known # {}
             THEN Weld(vtxs, old_idx + 1,
                       [w EXCEPT !.new_idxs = Append(@, (CHOOSE k \in known : TRUE) - 1)])
             ELSE Weld(vtxs, old_idx + 1,
                       [ids |-> Append(w.ids, vtx_id),
                        new_idxs |-> Append(w.new_idxs, Len(w.ids)),
                        old_idxs |-> Append(w.old_idxs, old_idx)])

\* slice.chunks(size): consecutive pieces of size elements, the last one
\* shorter when the length is not a multiple of size.
chunks(s, size) ==
    [c \in 1..((Len(s) + size - 1) \div size) |->
        SubSeq(s, (c - 1) * size + 1, Min(c * size, Len(s)))]

\* A triangle that gives every corner the first corner only.
TriangleCornersFirst(new_idxs, triangle) == <<new_idxs[triangle[1] + 1]>>

\* The new indices of the three corners of a triangle.
TriangleCorners(new_idxs, triangle) ==
    <<new_idxs[triangle[1] + 1], new_idxs[triangle[2] + 1], new_idxs[triangle[3] + 1]>>

\* Indexing triangle[1], triangle[2] or new_idxs goes out of bounds.
TrianglePanics(new_idxs, triangle) ==
    \/ Len(triangle) < 3
    \/ \E k \in 1..Len(triangle) : triangle[k] >= Len(new_idxs)

\* map.entry(key).or_insert(vec![]).extend(items)
Extend(map, key, items) ==
    IF key \in DOMAIN map
    THEN [map EXCEPT ![key] = @ \o items]
    ELSE (key :> items) @@ map

\* The inner loop over the corners of one triangle, from the k-th on.
RECURSIVE AddTriangle(_, _, _, _)
AddTriangle(map, new_idxs, triangle, k) ==
    IF k > Len(triangle) THEN map
    ELSE AddTriangle(Extend(map, new_idxs[triangle[k] + 1],
                            TriangleCorners(new_idxs, triangle)),
                     new_idxs, triangle, k + 1)

\* The loop over the triangles, from the t-th on.
RECURSIVE AddTriangles(_, _, _, _)
AddTriangles(map, new_idxs, triangles, t) ==
    IF t > Len(triangles) THEN [panic |-> FALSE, map |-> map]
    ELSE IF TrianglePanics(new_idxs, triangles[t]) THEN [panic |-> TRUE, map |-> map]
    ELSE AddTriangles(AddTriangle(map, new_idxs, triangles[t], 1),
                      new_idxs, triangles, t + 1)

\* Vec::sort on indices.
sort(s) == SortSeq(s, LAMBDA a, b : a < b)

\* Vec::dedup: of every run of equal elements the first is kept.
RECURSIVE dedup(_)
dedup(s) ==
    IF Len(s) <= 1 THEN s
    ELSE LET rest == dedup(Tail(s))
         IN  IF Head(s) = Head(rest) THEN rest ELSE <<Head(s)>> \o rest

\* A neighbour list that is sorted and deduplicated with the node's own index
\* left in.
NeighboursWithSelf(map, new_idx) == dedup(sort(map[new_idx]))

\* The neighbour list of the node new_idx.
NeighboursOf(map, new_idx) ==
    dedup(sort(SelectSeq(map[new_idx], LAMBDA n : n # new_idx)))

\* get_navmesh on the position buffer vtxs and the index buffer idxs.
get_navmesh(vtxs, idxs) ==
    LET w == Weld(vtxs, 0, [ids |-> <<>>, new_idxs |-> <<>>, old_idxs |-> <<>>])
        t == AddTriangles(<<>>, w.new_idxs, chunks(idxs, 3), 1)
    IN  IF t.panic \/ \E new_idx \in 0..(Len(w.old_idxs) - 1) : new_idx \notin DOMAIN t.map
        THEN [status |-> "panic", nodes |-> <<>>]
        ELSE [status |-> "Ok",
              nodes |-> [k \in 1..Len(w.old_idxs) |->
                            NavNode(vtxs[w.old_idxs[k] + 1], NeighboursOf(t.map, k - 1))]]

NavInit ==
    /\ NavIdle
    /\ AnimIdle
    /\ AStarIdle
    /\ DeferredIdle
    /\ DrawIdle
    /\ OthersIdle

\* Scene::load calls get_navmesh once, on the node that carries the navmesh.
GetNavmesh ==
    /\ navmesh.status = "none"
    /\ \E b \in DOMAIN VertexBuffers, idxs \in IndexBuffers :
          /\ mesh' = [vtxs |-> VertexBuffers[b], idxs |-> idxs]
          /\ navmesh' = get_navmesh(VertexBuffers[b], idxs)
    /\ UNCHANGED notNavVars

NavNext == GetNavmesh

SpecNav == NavInit /\ [][NavNext]_vars

----------------------------------------------------------------------------
\* Properties of the navmesh builder.

InList(x, s) == \E k \in 1..Len(s) : s[k] = x

\* C16: in the node list get_navmesh returns, j is in the neighbour list of i
\* exactly when i is in the neighbour list of j.
C16_NeighboursSymmetric ==
    navmesh.status = "Ok" =>
        \A i, j \in 0..(Len(navmesh.nodes) - 1) :
            InList(j, navmesh.nodes[i + 1].neighbours)
                <=> InList(i, navmesh.nodes[j + 1].neighbours)

\* Two triangles that share an edge, two of the raw corners welded into one
\* node.
C16_Witness ==
    /\ navmesh.status = "Ok"
    /\ Len(mesh.idxs) = 6
    /\ Len(navmesh.nodes) = 3
    /\ Len(mesh.vtxs) = 4
    /\ InList(3, mesh.idxs)
    /\ \E i \in 1..3 : Len(navmesh.nodes[i].neighbours) = 2

----------------------------------------------------------------------------
\* The deferred renderer: GBuffer and DeferredRenderer.

\* GBuffer::new is called at most MaxCreates times.
MaxCreates == 2

\* At most MaxFrames frames are drawn.
MaxFrames == 2

\* COLOR_ATTACHMENTi as FramebufferTexture2D wires it.
ColorAttachment(i) ==
    CASE i = 0 -> "position_tex"
      [] i = 1 -> "normal_tex"
      [] i = 2 -> "albedo_tex"
      [] i = 3 -> "light_tex"

\* Framebuffer bindings: the framebuffer of the k-th GBuffer, and the one
\* Allegro binds for a target bitmap.
GBufferFb(k) == <<"g_buffer", k>>

BitmapFb == <<"bitmap", 0>>

BackbufferFb == <<"backbuffer", 0>>

\* The objects that are generated and not deleted.
Allocated(g) == {o \in DOMAIN g.deletes : g.deletes[o] = 0}

\* The Gen* calls of the k-th GBuffer::new: one object for each field.
Generate(g, k) ==
    [creates |-> k,
     deletes |-> [o \in {<<k, f>> : f \in Fields} |-> 0] @@ g.deletes]

\* Drop for GBuffer: one Delete* call for each object of the k-th GBuffer.
drop(g, k) ==
    [g EXCEPT !.deletes =
        [o \in DOMAIN g.deletes |->
            IF o[1] = k THEN g.deletes[o] + 1 ELSE g.deletes[o]]]

\* Deleting the framebuffer that is bound binds the default one.
Unbind(s, k) ==
    [s EXCEPT !.draw_fb = IF @ = GBufferFb(k) THEN BackbufferFb ELSE @,
              !.read_fb = IF @ = GBufferFb(k) THEN BackbufferFb ELSE @]

\* GBuffer::new.  complete: CheckFramebufferStatus reports a complete
\* framebuffer; vb_ok: VertexBuffer::new succeeds.
GBuffer_new(g, s, complete, vb_ok) ==
    LET k == g.creates + 1
        made == Generate(g, k)
        bound == [s EXCEPT !.draw_fb = GBufferFb(k), !.read_fb = GBufferFb(k),
                           !.draw_buffers = 0..3]
        unbound == [bound EXCEPT !.draw_fb = BackbufferFb, !.read_fb = BackbufferFb]
    IN  IF ~complete
        THEN [result |-> "Err", gpu |-> made, gl |-> bound, g_buffer |-> 0]
        ELSE IF ~vb_ok
        THEN [result |-> "panic", gpu |-> made, gl |-> unbound, g_buffer |-> 0]
        ELSE [result |-> "Ok", gpu |-> made, gl |-> unbound, g_buffer |-> k]

Cleared(fr) == [value |-> "cleared", frame |-> fr]

\* Core::clear_depth_buffer: glClear of the depth buffer of the framebuffer
\* that is bound for drawing, which the depth mask can switch off.
clear_depth_buffer(a, s, r, fr) ==
    IF s.draw_fb = GBufferFb(r.g_buffer) /\ s.depth_mask
    THEN [a EXCEPT !["depth_render_buffer"] = Cleared(fr)]
    ELSE a

\* Core::clear_to_color: glClear of every draw buffer of the framebuffer that
\* is bound for drawing.
clear_to_color(a, s, r, fr) ==
    IF s.draw_fb = GBufferFb(r.g_buffer)
    THEN [x \in Attachments |->
            IF \E i \in s.draw_buffers : ColorAttachment(i) = x THEN Cleared(fr) ELSE a[x]]
    ELSE a

\* A draw call under the render state s.  It writes the draw buffers of the
\* bound framebuffer, adding to what they hold under the One/One blender,
\* and the depth buffer when the depth test and the depth mask are on.
draw_call(a, s, r, fr) ==
    IF s.draw_fb # GBufferFb(r.g_buffer) THEN a
    ELSE [x \in Attachments |->
            IF x = "depth_render_buffer"
            THEN IF s.depth_test # "None" /\ s.depth_mask
                 THEN [value |-> "drawn", frame |-> fr]
                 ELSE a[x]
            ELSE IF \E i \in s.draw_buffers : ColorAttachment(i) = x
                 THEN IF s.blender = <<"One", "One">>
                      THEN [value |-> "accumulated", frame |-> a[x].frame]
                      ELSE [value |-> "drawn", frame |-> fr]
                 ELSE a[x]]

begin_forward_pass(r, s, a, fr) ==
    LET s1 == [s EXCEPT !.draw_fb = GBufferFb(r.g_buffer),
                        !.read_fb = GBufferFb(r.g_buffer),
                        !.draw_buffers = 0..3,
                        !.cull_face = "Back",
                        !.depth_mask = TRUE,
                        !.blender = <<"One", "Zero">>,
                        !.depth_test = "Less"]
    IN  [result |-> "Ok", gl |-> s1,
         attach |-> clear_to_color(clear_depth_buffer(a, s1, r, fr), s1, r, fr),
         light_sampled |-> Undefined]

\* A light pass that binds the framebuffer and the light shader and leaves
\* the draw buffers, the depth test and the depth mask as they were.
begin_light_pass_wide(r, s, a, fr, shader_ok) ==
    LET s1 == [s EXCEPT !.draw_fb = GBufferFb(r.g_buffer),
                        !.read_fb = GBufferFb(r.g_buffer),
                        !.blender = <<"One", "One">>,
                        !.cull_face = "Front"]
        s2 == [s1 EXCEPT !.shader = "light_shader",
                         !.units = (0 :> "position_tex") @@ (1 :> "normal_tex") @@ s.units]
    IN  IF shader_ok
        THEN [result |-> "Ok", gl |-> s2, attach |-> a, light_sampled |-> Undefined]
        ELSE [result |-> "panic", gl |-> s1, attach |-> a, light_sampled |-> Undefined]

\* shader_ok: Core::use_shader returns Ok for light_shader.
begin_light_pass(r, s, a, fr, shader_ok) ==
    LET s1 == [s EXCEPT !.draw_fb = GBufferFb(r.g_buffer),
                        !.read_fb = GBufferFb(r.g_buffer),
                        !.draw_buffers = {3},
                        !.blender = <<"One", "One">>,
                        !.depth_test = "None",
                        !.depth_mask = FALSE,
                        !.cull_face = "Front"]
        s2 == [s1 EXCEPT !.shader = "light_shader",
                         !.units = (0 :> "position_tex") @@ (1 :> "normal_tex") @@ s.units]
    IN  IF shader_ok
        THEN [result |-> "Ok", gl |-> s2, attach |-> a, light_sampled |-> Undefined]
        ELSE [result |-> "panic", gl |-> s1, attach |-> a, light_sampled |-> Undefined]

\* shader_ok: Core::use_shader returns Ok for final_shader.
final_pass(r, s, a, fr, shader_ok) ==
    LET s1 == [s EXCEPT !.draw_fb = BitmapFb,
                        !.read_fb = GBufferFb(r.g_buffer),
                        !.depth_test = "None",
                        !.blender = <<"One", "Zero">>]
        s2 == [s1 EXCEPT !.shader = "final_shader",
                         !.cull_face = "Disabled",
                         !.units = (1 :> "position_tex") @@ (2 :> "normal_tex")
                                     @@ (3 :> "albedo_tex") @@ (4 :> "light_tex") @@ s.units]
    IN  IF shader_ok
        THEN [result |-> "Ok", gl |-> s2, attach |-> a, light_sampled |-> a[s2.units[4]]]
        ELSE [result |-> "panic", gl |-> s1, attach |-> a, light_sampled |-> Undefined]

\* phase is the pass whose GL state the draw calls run under: the last of the
\* three pass calls, as long as only draw calls have followed it.
Called(op, result, sampled) ==
    [op |-> op, prev |-> pass.op,
     phase |-> IF op \in {"begin_forward_pass", "begin_light_pass", "final_pass"} THEN op
               ELSE IF op = "draw" THEN pass.phase
               ELSE "none",
     result |-> result, light_sampled |-> sampled]

DeferredInit ==
    /\ DeferredIdle
    /\ AnimIdle
    /\ AStarIdle
    /\ NavIdle
    /\ DrawIdle
    /\ OthersIdle

\* self.deferred_renderer = Some(DeferredRenderer::new(..)?): the GBuffer that
\* was held is dropped once the new one is there.
CreateRenderer ==
    /\ pass.result # "panic"
    /\ gpu.creates < MaxCreates
    /\ \E complete \in BOOLEAN, vb_ok \in BOOLEAN :
          LET n == GBuffer_new(gpu, gl, complete, vb_ok)
          IN  /\ IF n.result = "Ok"
                 THEN /\ renderer' = [some |-> TRUE, g_buffer |-> n.g_buffer]
                      /\ gpu' = IF renderer.some THEN drop(n.gpu, renderer.g_buffer) ELSE n.gpu
                      /\ attach' = [a \in Attachments |-> Undefined]
                 ELSE /\ gpu' = n.gpu
                      /\ UNCHANGED <<renderer, attach>>
              /\ gl' = n.gl
              /\ pass' = Called("new", n.result, Undefined)
    /\ UNCHANGED frame
    /\ UNCHANGED notDeferredVars

\* The game state lets go of its renderer.
DropRenderer ==
    /\ pass.result # "panic"
    /\ renderer.some
    /\ gpu' = drop(gpu, renderer.g_buffer)
    /\ gl' = Unbind(gl, renderer.g_buffer)
    /\ renderer' = [some |-> FALSE, g_buffer |-> 0]
    /\ pass' = Called("drop", "Ok", Undefined)
    /\ UNCHANGED <<attach, frame>>
    /\ UNCHANGED notDeferredVars

Returned(op, r) ==
    /\ gl' = r.gl
    /\ attach' = r.attach
    /\ pass' = Called(op, r.result, r.light_sampled)
    /\ UNCHANGED <<gpu, renderer, frame>>
    /\ UNCHANGED notDeferredVars

BeginForwardPass ==
    /\ pass.result # "panic"
    /\ renderer.some
    /\ Returned("begin_forward_pass", begin_forward_pass(renderer, gl, attach, frame))

BeginLightPass ==
    /\ pass.result # "panic"
    /\ renderer.some
    /\ \E shader_ok \in BOOLEAN :
          Returned("begin_light_pass", begin_light_pass(renderer, gl, attach, frame, shader_ok))

FinalPass ==
    /\ pass.result # "panic"
    /\ renderer.some
    /\ \E shader_ok \in BOOLEAN :
          Returned("final_pass", final_pass(renderer, gl, attach, frame, shader_ok))

\* A mesh is drawn between two renderer calls.
DrawCall ==
    /\ pass.result # "panic"
    /\ renderer.some
    /\ attach' = draw_call(attach, gl, renderer, frame)
    /\ pass' = Called("draw", "Ok", Undefined)
    /\ UNCHANGED <<gpu, renderer, gl, frame>>
    /\ UNCHANGED notDeferredVars

\* The game loop shows the frame: the target is the backbuffer again.
FlipDisplay ==
    /\ pass.result # "panic"
    /\ frame < MaxFrames
    /\ frame' = frame + 1
    /\ gl' = [gl EXCEPT !.draw_fb = BackbufferFb, !.read_fb = BackbufferFb]
    /\ pass' = Called("flip_display", "Ok", Undefined)
    /\ UNCHANGED <<gpu, renderer, attach>>
    /\ UNCHANGED notDeferredVars

DeferredNext ==
    \/ CreateRenderer
    \/ DropRenderer
    \/ BeginForwardPass
    \/ BeginLightPass
    \/ FinalPass
    \/ DrawCall
    \/ FlipDisplay

SpecDeferred == DeferredInit /\ [][DeferredNext]_vars

----------------------------------------------------------------------------
\* Properties of the deferred renderer.

\* C17: a final_pass that directly follows begin_forward_pass completes, and
\* the light buffer it samples holds what begin_forward_pass cleared it to in
\* this frame.
C17_ForwardThenFinal ==
    (pass.op = "final_pass" /\ pass.prev = "begin_forward_pass") =>
        /\ pass.result = "Ok"
        /\ pass.light_sampled = Cleared(frame)

\* C18: begin_forward_pass, begin_light_pass and final_pass return Ok, in any
\* renderer state and call order, whether the shader binds or not.
C18_PassesReturnOk ==
    pass.op \in {"begin_forward_pass", "begin_light_pass", "final_pass"} =>
        pass.result = "Ok"

\* C19: every GL object GBuffer::new generated is deleted exactly once, unless
\* it belongs to the GBuffer the renderer holds, which is deleted no time; in
\* particular none is left allocated after a create that returned Err.
C19_ReleasedExactlyOnce ==
    pass.result # "panic" =>
        \A o \in DOMAIN gpu.deletes :
            gpu.deletes[o] = IF renderer.some /\ o[1] = renderer.g_buffer THEN 0 ELSE 1

----------------------------------------------------------------------------
\* Scene drawing: Scene::draw and Object::draw of slhack, and Scene::draw of
\* the game.

\* A MultiMesh object has at most MaxMeshes meshes.
MaxMeshes == 2

\* The texture names a material can carry.
Textures == {"wall", "floor"}

\* Mesh::material: None, or a material whose desc.texture is the name.
Materials == {"None"} \cup Textures

Mesh(material) == [material |-> material]

\* The objects of a scene: a light, or a MultiMesh of one to MaxMeshes meshes.
Objects ==
    {[kind |-> "Light", meshes |-> <<>>]} \cup
    {[kind |-> "MultiMesh", meshes |-> [i \in 1..n |-> Mesh(ms[i])]] :
        ms \in [1..MaxMeshes -> Materials], n \in 1..MaxMeshes}

\* The scenes loaded: one object or two.
Scenes == {<<o>> : o \in Objects} \cup {<<o, p>> : o \in Objects, p \in Objects}

\* A draw_indexed_buffer or draw_indexed_prim call: the mesh and the bitmap
\* passed with it.
DrawOf(oi, mi, bitmap) == [object |-> oi, mesh |-> mi, bitmap |-> bitmap]

\* Object::draw of slhack on the object oi, from its mi-th mesh on: a lookup
\* that finds nothing gives the bitmap None, and the mesh is drawn.
RECURSIVE Object_draw(_, _, _, _)
Object_draw(sc, oi, mi, textures) ==
    IF sc[oi].kind # "MultiMesh" \/ mi > Len(sc[oi].meshes) THEN <<>>
    ELSE LET material == sc[oi].meshes[mi].material
             bitmap == IF material \in textures THEN material ELSE "None"
         IN  <<DrawOf(oi, mi, bitmap)>> \o Object_draw(sc, oi, mi + 1, textures)

\* Scene::draw of slhack, from the object oi on.
RECURSIVE slhack_Scene_draw(_, _, _)
slhack_Scene_draw(sc, oi, textures) ==
    IF oi > Len(sc) THEN [calls |-> <<>>, result |-> "Ok"]
    ELSE LET rest == slhack_Scene_draw(sc, oi + 1, textures)
         IN  [calls |-> Object_draw(sc, oi, 1, textures) \o rest.calls,
              result |-> rest.result]

\* Scene::draw of the game, from the mi-th mesh of the object oi on: the
\* Result of the lookup is unwrapped.
RECURSIVE Scene_draw(_, _, _, _)
Scene_draw(sc, oi, mi, textures) ==
    IF oi > Len(sc) THEN [calls |-> <<>>, result |-> "Ok"]
    ELSE IF sc[oi].kind # "MultiMesh" \/ mi > Len(sc[oi].meshes)
    THEN Scene_draw(sc, oi + 1, 1, textures)
    ELSE LET material == sc[oi].meshes[mi].material
         IN  IF material # "None" /\ material \notin textures
             THEN [calls |-> <<>>, result |-> "panic"]
             ELSE LET rest == Scene_draw(sc, oi, mi + 1, textures)
                  IN  [calls |-> <<DrawOf(oi, mi, material)>> \o rest.calls,
                       result |-> rest.result]

DrawInit ==
    /\ scene \in Scenes
    /\ drawn = [by |-> "none", textures |-> {}, calls |-> <<>>, result |-> "none"]
    /\ AnimIdle
    /\ AStarIdle
    /\ NavIdle
    /\ DeferredIdle
    /\ OthersIdle

\* A frame drawn with slhack's Scene::draw; textures are the names the
\* texture callback finds.
SlhackSceneDraw ==
    /\ drawn.result # "panic"
    /\ \E textures \in SUBSET Textures :
          LET d == slhack_Scene_draw(scene, 1, textures)
          IN  drawn' = [by |-> "slhack", textures |-> textures,
                        calls |-> d.calls, result |-> d.result]
    /\ UNCHANGED scene
    /\ UNCHANGED notDrawVars

\* A frame drawn with the game's Scene::draw.
SceneDraw ==
    /\ drawn.result # "panic"
    /\ \E textures \in SUBSET Textures :
          LET d == Scene_draw(scene, 1, 1, textures)
          IN  drawn' = [by |-> "game", textures |-> textures,
                        calls |-> d.calls, result |-> d.result]
    /\ UNCHANGED scene
    /\ UNCHANGED notDrawVars

DrawNext == SlhackSceneDraw \/ SceneDraw

SpecDraw == DrawInit /\ [][DrawNext]_vars

----------------------------------------------------------------------------
\* Properties of scene drawing.

\* The meshes of the MultiMesh objects of the scene, in insertion order.
RECURSIVE MeshesFrom(_)
MeshesFrom(oi) ==
    IF oi > Len(scene) THEN <<>>
    ELSE (IF scene[oi].kind = "MultiMesh"
          THEN [mi \in 1..Len(scene[oi].meshes) |->
                    [object |-> oi, mesh |-> mi, material |-> scene[oi].meshes[mi].material]]
          ELSE <<>>) \o MeshesFrom(oi + 1)

\* C20: a draw during which the texture callback finds no texture for some
\* mesh's material does not abort; every mesh of the scene is drawn exactly
\* once, in insertion order, and a mesh whose texture is not found is drawn
\* without a texture.
C20_MissTolerated ==
    LET ms == MeshesFrom(1)
    IN  (/\ drawn.by # "none"
         /\ \E k \in 1..Len(ms) : ms[k].material \in Textures \ drawn.textures)
        => /\ drawn.result = "Ok"
           /\ Len(drawn.calls) = Len(ms)
           /\ \A k \in 1..Len(ms) :
                 drawn.calls[k] =
                    DrawOf(ms[k].object, ms[k].mesh,
                           IF ms[k].material \in drawn.textures
                           THEN ms[k].material ELSE "None")

----------------------------------------------------------------------------
\* Further properties of the animation state machine.

\* Two tracks have their keyframes at the same times.
SameTimes(a, b) ==
    /\ Len(a) = Len(b)
    /\ \A k \in 1..Len(a) : a[k].t = b[k].t

\* C21: after an advance_state call the cursor of a non-empty rotation or
\* scale track is the one a position track with the same timestamps has, and
\* an animation with a scale track and no position track advances without a
\* panic.
C21_CursorsIndependent ==
    (lastOp = "advance_state" /\ state.animation_name \in AnimationNames) =>
        /\ (ActiveAnimation.scale_track # <<>> /\ ActiveAnimation.pos_track = <<>>)
              => ~aborted
        /\ (/\ ~aborted
            /\ ActiveAnimation.rot_track # <<>>
            /\ SameTimes(ActiveAnimation.rot_track, ActiveAnimation.pos_track))
              => state.rot_frame_idx = state.pos_frame_idx
        /\ (/\ ~aborted
            /\ ActiveAnimation.scale_track # <<>>
            /\ SameTimes(ActiveAnimation.scale_track, ActiveAnimation.pos_track))
              => state.scale_frame_idx = state.pos_frame_idx

\* C22: the advance_state(dt) call that switches from animation A to another
\* animation B of the object leaves the state that a freshly constructed
\* AnimationState for B advanced by dt has.
C22_SwitchEqualsFresh ==
    [][(/\ lastOp' = "advance_state"
        /\ ~aborted
        /\ state.animation_name \in AnimationNames
        /\ state.new_animation_name \in AnimationNames
        /\ state.animation_name # state.new_animation_name)
          => LET fresh == advance_state(
                              AnimationState_new(state.new_animation_name, state.once),
                              lastDt')
             IN  /\ aborted' = fresh.panic
                 /\ ~fresh.panic => state' = fresh.st]_vars

\* The value of the last keyframe of a non-empty track.
EndPose(track, value) == track # <<>> => RatEq(value, Hold(track[Len(track)].v))

\* C23: after an advance_state call that leaves a one-shot animation with
\* animation_progress beyond end, done is true and get_animation_position
\* returns the last keyframe value of every non-empty track; done stays true
\* in every later advance_state call that neither restarts nor switches.
C23_OneShotHoldsEndPose ==
    [][/\ (/\ lastOp' = "advance_state"
           /\ ~aborted'
           /\ state'.once
           /\ state'.animation_name \in AnimationNames
           /\ state'.animation_progress > Object.animations[state'.animation_name].end)
             => LET animation == Object.animations[state'.animation_name]
                    g == get_animation_position(state')
                IN  /\ state'.done
                    /\ ~g.panic
                    /\ EndPose(animation.pos_track, g.pos)
                    /\ EndPose(animation.rot_track, g.rot)
                    /\ EndPose(animation.scale_track, g.scale)
       /\ (/\ lastOp' = "advance_state"
           /\ ~aborted'
           /\ state.done
           /\ ~state.need_reset
           /\ state.animation_name = state.new_animation_name)
             => state'.done]_vars

----------------------------------------------------------------------------
\* The loop of advance_state, one iteration at a time, over a family of
\* animations: every track is empty, has one keyframe, or has two keyframes
\* (at distinct times, at the same time, or both after time 0), so that end
\* ranges over 0, 1.0 and 1.5.

\* The loop is not followed past this many iterations of one call.
MaxIterations == 40

TrackShapes ==
    {<<>>,
     <<Key(0, 0)>>,
     <<Key(0, 0), Key(2, 1)>>,
     <<Key(0, 0), Key(0, 1)>>,
     <<Key(1, 0), Key(3, 1)>>}

LoopAnimations ==
    {Animation(p, r, sc) : p \in TrackShapes, r \in TrackShapes, sc \in TrackShapes}

\* The first advance_state call on a fresh AnimationState, at the top of its
\* loop: the progress is the amount of the call.
LoopInit ==
    /\ \E animation \in LoopAnimations, once \in BOOLEAN, amount \in 0..MaxDt :
          cursors = [pc |-> "loop",
                     animation |-> animation,
                     st |-> [AnimationState_new("played", once)
                                EXCEPT !.animation_progress = amount],
                     iterations |-> 0]
    /\ AnimIdle
    /\ AStarIdle
    /\ NavIdle
    /\ DeferredIdle
    /\ DrawIdle
    /\ SearchIdle
    /\ GameLoopIdle
    /\ SfxIdle

\* One iteration of the loop.
LoopIteration ==
    /\ cursors.pc = "loop"
    /\ cursors.iterations < MaxIterations
    /\ LET b == LoopBody(cursors.animation, cursors.st)
       IN  cursors' = [cursors EXCEPT
                          !.pc = IF b.panic THEN "panicked"
                                 ELSE IF b.exit THEN "exited" ELSE "loop",
                          !.st = b.st,
                          !.iterations = @ + 1]
    /\ UNCHANGED notCursorVars

\* The next advance_state call on the same state, up to the top of its loop.
CallAgain ==
    /\ cursors.pc = "exited"
    /\ \E amount \in 0..MaxDt :
          /\ cursors.st.animation_progress + amount <= MaxProgress
          /\ cursors' = [cursors EXCEPT
                            !.pc = "loop",
                            !.st = [cursors.st EXCEPT !.num_loops = 0,
                                                      !.animation_progress = @ + amount],
                            !.iterations = 0]
    /\ UNCHANGED notCursorVars

LoopNext ==
    \/ LoopIteration
    \/ CallAgain

SpecLoop == LoopInit /\ [][LoopNext]_vars

\* No call is still inside its loop when the iteration limit is reached.
LoopBounded == cursors.pc = "loop" => cursors.iterations < MaxIterations

\* C24: every advance_state call terminates: for every animation (any track
\* lengths, any end >= 0, looping or one-shot) and every dt >= 0 the loop
\* reaches an iteration in which no cursor changes and exits; it neither
\* runs on past the iteration limit nor stops in an indexing panic.
C24_LoopReachesExit ==
    /\ LoopBounded
    /\ cursors.pc # "panicked"

----------------------------------------------------------------------------
\* solve, one iteration of its loops at a time: the while loop over the open
\* set, then the predecessor walk of the reconstruction.  The cost functions
\* are those of CostFns and one that makes every edge free.

\* The while loop is not followed past this many pops of one call.
MaxPops == 12

\* The predecessor walk is not followed past this many steps of one call.
MaxWalk == 6

StepCostFns == CostFns \cup {"free"}

\* The search state handed back to the context when solve returns.
ContextOf(c) == [open_set |-> c.open_set, came_from |-> c.came_from, cost |-> c.cost]

SearchInit ==
    /\ \E g \in DOMAIN Graphs, from \in Points, to \in Points, kind \in StepCostFns :
          /\ nodes = Graphs[g]
          /\ ctx = AStarContext_new(Graphs[g])
          /\ query = [solved |-> FALSE, from |-> from, to |-> to, cost_fn |-> kind]
          /\ search = [pc |-> "while",
                       c |-> SolveStart(Graphs[g], AStarContext_new(Graphs[g]), from, to),
                       cur_idx |-> -1,
                       path |-> <<>>,
                       pops |-> 0,
                       steps |-> 0]
    /\ path = <<>>
    /\ AnimIdle
    /\ NavIdle
    /\ DeferredIdle
    /\ DrawIdle
    /\ CursorIdle
    /\ GameLoopIdle
    /\ SfxIdle

\* An iteration of the while loop that pops a node other than the goal and
\* relaxes its neighbours.
PopAndRelax ==
    /\ search.pc = "while"
    /\ search.pops < MaxPops
    /\ \E cur \in PopCandidates(search.c.open_set) :
          /\ cur.idx # ToIdx
          /\ search' = [search EXCEPT
                           !.c = Relax(nodes, [search.c EXCEPT !.open_set = @ \ {cur}],
                                       cur.idx, 1, ToIdx, query.cost_fn),
                           !.pops = @ + 1]
    /\ UNCHANGED <<astarVars, notSearchVars>>

\* The iteration of the while loop that pops the goal: the reconstruction
\* starts from the query's own goal point.
GoalPopped ==
    /\ search.pc = "while"
    /\ search.pops < MaxPops
    /\ \E cur \in PopCandidates(search.c.open_set) :
          /\ cur.idx = ToIdx
          /\ search' = [search EXCEPT
                           !.c.open_set = @ \ {cur},
                           !.pc = "walk",
                           !.cur_idx = ToIdx,
                           !.path = <<query.to>>,
                           !.pops = @ + 1]
    /\ UNCHANGED <<astarVars, notSearchVars>>

\* The while loop ends on an empty open set with a best-effort node: the
\* reconstruction starts from that node.
OpenSetEmptyBestEffort ==
    /\ search.pc = "while"
    /\ search.c.open_set = {}
    /\ search.c.best_idx_so_far > -1
    /\ search' = [search EXCEPT
                     !.pc = "walk",
                     !.cur_idx = search.c.best_idx_so_far,
                     !.path = <<idx_to_pos(nodes, search.c.best_idx_so_far)>>]
    /\ UNCHANGED <<astarVars, notSearchVars>>

\* The while loop ends on an empty open set without a best-effort node: solve
\* returns the empty path.
OpenSetEmptyNoPath ==
    /\ search.pc = "while"
    /\ search.c.open_set = {}
    /\ search.c.best_idx_so_far = -1
    /\ search' = [search EXCEPT !.pc = "returned"]
    /\ path' = <<>>
    /\ ctx' = ContextOf(search.c)
    /\ query' = [query EXCEPT !.solved = TRUE]
    /\ UNCHANGED <<nodes, notSearchVars>>

\* One step of the predecessor walk: an unset predecessor (-1) is an index
\* out of bounds.
WalkStep ==
    /\ search.pc = "walk"
    /\ search.steps < MaxWalk
    /\ LET prev == search.c.came_from[search.cur_idx + 1]
       IN  IF prev = -1
           THEN /\ search' = [search EXCEPT !.pc = "panicked", !.steps = @ + 1]
                /\ UNCHANGED <<path, ctx, query>>
           ELSE LET grown == Append(search.path, idx_to_pos(nodes, prev))
                IN  IF prev = FromIdx
                    THEN /\ search' = [search EXCEPT !.pc = "returned",
                                                      !.cur_idx = prev,
                                                      !.path = grown,
                                                      !.steps = @ + 1]
                         /\ path' = grown
                         /\ ctx' = ContextOf(search.c)
                         /\ query' = [query EXCEPT !.solved = TRUE]
                    ELSE /\ search' = [search EXCEPT !.cur_idx = prev,
                                                      !.path = grown,
                                                      !.steps = @ + 1]
                         /\ UNCHANGED <<path, ctx, query>>
    /\ UNCHANGED <<nodes, notSearchVars>>

SearchNext ==
    \/ PopAndRelax
    \/ GoalPopped
    \/ OpenSetEmptyBestEffort
    \/ OpenSetEmptyNoPath
    \/ WalkStep

SpecSearch == SearchInit /\ [][SearchNext]_vars

\* C25: solve terminates for every graph and every non-negative cost
\* function: the while loop stops, on an empty open set or on the goal,
\* before the pop limit; the predecessor walk meets no unset predecessor and
\* reaches the start node within as many steps as there are nodes; and the
\* returned path, when not empty, ends at the start node.
C25_SolveTerminates ==
    /\ search.pc = "while" => search.pops < MaxPops \/ search.c.open_set = {}
    /\ search.pc = "walk" => search.steps < Len(nodes)
    /\ search.pc # "panicked"
    /\ search.pc = "returned" =>
          /\ search.steps <= Len(nodes)
          /\ path # <<>> => path[Len(path)] = idx_to_pos(nodes, FromIdx)

\* A search under the free cost function that relaxed along two links and
\* then walked back over them.
C25_Witness ==
    /\ search.pc = "returned"
    /\ query.cost_fn = "free"
    /\ search.pops >= 3
    /\ search.steps >= 2

----------------------------------------------------------------------------
\* C26: solve resets its scratch state on every call: on the context any
\* sequence of solve calls has left, a solve with any arguments has the
\* outcomes (returned path and buffers left behind) of the same solve on a
\* freshly constructed context over the same nodes.
C26_ScratchReset ==
    \A from \in Points, to \in Points, kind \in CostFns :
        solve(nodes, ctx, from, to, kind)
            = solve(nodes, AStarContext_new(nodes), from, to, kind)

\* A context that an earlier solve left with predecessors, costs and
\* open-set entries of its own.
C26_Witness ==
    /\ query.solved
    /\ search.pc = "none"
    /\ ctx.open_set # {}
    /\ ctx.cost # AStarContext_new(nodes).cost
    /\ \E i \in 1..Len(ctx.came_from) : ctx.came_from[i] # -1

----------------------------------------------------------------------------
\* C27: every neighbour list of a navmesh that get_navmesh returns is sorted
\* ascending without a duplicate (each entry is less than the next), never
\* holds the node's own index, and holds only indices 0..n-1 of the n
\* returned nodes.
C27_NeighbourListsWellFormed ==
    navmesh.status = "Ok" =>
        \A i \in 0..(Len(navmesh.nodes) - 1) :
            LET neighbours == navmesh.nodes[i + 1].neighbours
            IN  /\ \A k \in 1..(Len(neighbours) - 1) : neighbours[k] < neighbours[k + 1]
                /\ ~InList(i, neighbours)
                /\ \A k \in 1..Len(neighbours) :
                       neighbours[k] \in 0..(Len(navmesh.nodes) - 1)

\* A mesh of two triangles, one of them with a corner repeated, every vertex
\* referenced: the repeated corner links a node to itself and the shared edge
\* is entered twice before the lists are cleaned.
C27_Witness ==
    /\ navmesh.status = "Ok"
    /\ Len(mesh.idxs) = 6
    /\ mesh.idxs[1] = mesh.idxs[2]
    /\ mesh.idxs[4] # mesh.idxs[5] /\ mesh.idxs[5] # mesh.idxs[6] /\ mesh.idxs[4] # mesh.idxs[6]
    /\ \E i \in 1..Len(navmesh.nodes) : Len(navmesh.nodes[i].neighbours) = 2

----------------------------------------------------------------------------
\* C28: from begin_light_pass until the next begin_forward_pass or
\* final_pass, the call itself and the draw calls that follow it change no
\* attachment other than light_tex (colour attachment 3): position_tex,
\* normal_tex, albedo_tex and the depth render buffer keep their contents.
C28_LightPassWritesLightOnly ==
    [][pass'.phase = "begin_light_pass" =>
          \A x \in Attachments \ {"light_tex"} : attach'[x] = attach[x]]_vars

\* A draw call of the light pass that accumulated into light_tex over a
\* G-buffer whose depth and albedo the forward pass of the frame had drawn.
C28_Witness ==
    /\ pass.op = "draw"
    /\ pass.phase = "begin_light_pass"
    /\ attach["light_tex"].value = "accumulated"
    /\ attach["depth_render_buffer"] = [value |-> "drawn", frame |-> frame]
    /\ attach["albedo_tex"] = [value |-> "drawn", frame |-> frame]

----------------------------------------------------------------------------
\* game_loop (slhack/src/game_loop.rs): the while loop from the queue test
\* to the call of step.  Events are posted by the timer and the input
\* devices while the loop runs, between the queue test with its draw and the
\* read of the next event as well as between iterations.

\* The event queue holds at most this many events.
MaxQueue == 2

\* The loop is not followed past this value of hs.tick.
MaxTick == 13

\* The number of logic calls without a draw past which timer ticks are dropped.
LogicsWithoutDrawLimit == 10

EventKinds == {"TimerTick", "DisplayClose", "KeyDown"}

\* A test that lets every timer tick through.
NeverSkipsLogic(logics_without_draw) == FALSE

\* The test at the head of the TimerTick arm.
SkipsLogic(logics_without_draw) == logics_without_draw > LogicsWithoutDrawLimit

\* game_loop up to its while loop.  logics counts the logic() calls since the
\* last draw() (since the start, before the first one); last is what the
\* last step of the loop did.
GameLoopInit ==
    /\ events = <<>>
    /\ game = [pc |-> "top",
               quit |-> FALSE,
               logics_without_draw |-> 0,
               tick |-> 0,
               paused |-> FALSE,
               logics |-> 0,
               last |-> "none"]
    /\ AnimIdle
    /\ AStarIdle
    /\ NavIdle
    /\ DeferredIdle
    /\ DrawIdle
    /\ SearchIdle
    /\ CursorIdle
    /\ SfxIdle

\* An event source puts an event on the queue.
PostEvent ==
    /\ game.pc \in {"top", "event"}
    /\ Len(events) < MaxQueue
    /\ \E e \in EventKinds : events' = Append(events, e)
    /\ UNCHANGED game
    /\ UNCHANGED notGameLoopVars

\* The while test and the queue test: on an empty queue the frame is drawn
\* and shown and the counter is set back; draw_ok is the result of draw().
TopOfLoop ==
    /\ game.pc = "top"
    /\ IF game.quit
       THEN game' = [game EXCEPT !.pc = "returned", !.last = "quit"]
       ELSE IF events = <<>>
       THEN \E draw_ok \in BOOLEAN :
               game' = IF draw_ok
                       THEN [game EXCEPT !.pc = "event",
                                         !.logics_without_draw = 0,
                                         !.logics = 0,
                                         !.last = "draw"]
                       ELSE [game EXCEPT !.pc = "returned", !.last = "draw failed"]
       ELSE game' = [game EXCEPT !.pc = "event", !.last = "no draw"]
    /\ UNCHANGED events
    /\ UNCHANGED notGameLoopVars

\* get_next_event and what follows it in the iteration: input(), the arm of
\* the event, step().  input_ok and logic_ok are the results of input() and
\* logic(), paused the value logic() leaves in hs.paused, keep the result of
\* step().
HandleEvent ==
    /\ game.pc = "event"
    /\ game.tick < MaxTick
    /\ LET event == IF events = <<>> THEN "NoEvent" ELSE Head(events)
       IN  /\ events' = IF events = <<>> THEN events ELSE Tail(events)
           /\ \E input_ok \in BOOLEAN, logic_ok \in BOOLEAN,
                 paused \in BOOLEAN, keep \in BOOLEAN :
                 game' =
                    IF ~input_ok
                    THEN [game EXCEPT !.pc = "returned", !.last = "input failed"]
                    ELSE IF event = "TimerTick" /\ SkipsLogic(game.logics_without_draw)
                    THEN [game EXCEPT !.pc = "top", !.last = "discarded"]
                    ELSE IF event = "TimerTick" /\ ~logic_ok
                    THEN [game EXCEPT !.pc = "returned",
                                      !.logics = @ + 1,
                                      !.last = "logic failed"]
                    ELSE IF event = "TimerTick"
                    THEN [game EXCEPT !.pc = "top",
                                      !.logics = @ + 1,
                                      !.logics_without_draw = @ + 1,
                                      !.paused = paused,
                                      !.tick = IF paused THEN @ ELSE @ + 1,
                                      !.quit = @ \/ ~keep,
                                      !.last = "logic"]
                    ELSE IF event = "DisplayClose"
                    THEN [game EXCEPT !.pc = "top", !.quit = TRUE, !.last = "close"]
                    ELSE [game EXCEPT !.pc = "top", !.quit = @ \/ ~keep, !.last = "other"]
    /\ UNCHANGED notGameLoopVars

GameLoopNext ==
    \/ PostEvent
    \/ TopOfLoop
    \/ HandleEvent

SpecGameLoop == GameLoopInit /\ [][GameLoopNext]_vars

\* C29: game_loop makes at most 11 logic() calls between two consecutive
\* draw() calls; once more than 10 have been made since the last draw, a
\* timer tick is dropped without a logic() call and without advancing
\* hs.tick; and the count starts again only at a draw, which is made only on
\* an empty queue.
C29_LogicsBetweenDrawsBounded ==
    [][/\ game'.logics <= LogicsWithoutDrawLimit + 1
       /\ (/\ game.pc = "event"
           /\ events # <<>>
           /\ Head(events) = "TimerTick"
           /\ game.logics > LogicsWithoutDrawLimit
           /\ game'.pc # "event")
              => /\ game'.logics = game.logics
                 /\ game'.tick = game.tick
                 /\ game'.last \in {"discarded", "input failed"}
       /\ game'.logics < game.logics
              => /\ game'.last = "draw"
                 /\ events = <<>>
                 /\ game'.logics = 0]_vars

\* A timer tick dropped after eleven logic() calls without a draw.
C29_Witness ==
    /\ game.pc = "top"
    /\ game.last = "discarded"
    /\ game.logics = LogicsWithoutDrawLimit + 1
    /\ game.tick > 0

----------------------------------------------------------------------------
\* The exclusive sounds of Sfx (slhack/src/sfx.rs).  sfx holds the fields
\* exclusive_sounds and exclusive_instance; sounds records the names in the
\* order they were requested, the names update_sounds has popped, the names
\* it has started, and the last call with its result.

\* No more than this many exclusive sounds are requested.
MaxRequests == 3

SoundNames == {"hit", "coin"}

\* A request that is pushed at the back of the list.
play_exclusive_sound_at_back(exclusive_sounds, name) == Append(exclusive_sounds, name)

\* play_exclusive_sound: insert(0, name).
play_exclusive_sound(exclusive_sounds, name) == <<name>> \o exclusive_sounds

\* Vec::pop: the last element and the list without it.
pop(seq) == [value |-> seq[Len(seq)], rest |-> SubSeq(seq, 1, Len(seq) - 1)]

\* The exclusive-sound block of update_sounds: [result, sfx, taken, started].
\* get_ok, cache_ok and play_ok are the results of get_playing, cache_sample
\* and play_sample.
update_exclusive(x, get_ok, cache_ok, play_ok) ==
    IF x.exclusive_sounds = <<>>
    THEN [result |-> "Ok", sfx |-> x, taken |-> <<>>, started |-> <<>>]
    ELSE IF x.exclusive_instance.some /\ ~get_ok
    THEN [result |-> "panic", sfx |-> x, taken |-> <<>>, started |-> <<>>]
    ELSE IF x.exclusive_instance.some /\ x.exclusive_instance.playing
    THEN [result |-> "Ok", sfx |-> x, taken |-> <<>>, started |-> <<>>]
    ELSE LET p == pop(x.exclusive_sounds)
             popped == [x EXCEPT !.exclusive_sounds = p.rest]
         IN  IF ~cache_ok \/ ~play_ok
             THEN [result |-> "Err", sfx |-> popped,
                   taken |-> <<p.value>>, started |-> <<>>]
             ELSE [result |-> "Ok",
                   sfx |-> [popped EXCEPT
                              !.exclusive_instance = Some(p.value, TRUE)],
                   taken |-> <<p.value>>, started |-> <<p.value>>]

\* Sfx::new
SfxInit ==
    /\ SfxIdle
    /\ AnimIdle
    /\ AStarIdle
    /\ NavIdle
    /\ DeferredIdle
    /\ DrawIdle
    /\ SearchIdle
    /\ CursorIdle
    /\ GameLoopIdle

SfxRunning == sounds.last \notin {"update_sounds panic"}

PlayExclusiveSound ==
    /\ SfxRunning
    /\ Len(sounds.requested) < MaxRequests
    /\ \E name \in SoundNames :
          /\ sfx' = [sfx EXCEPT
                        !.exclusive_sounds = play_exclusive_sound(sfx.exclusive_sounds, name)]
          /\ sounds' = [sounds EXCEPT !.requested = Append(@, name),
                                      !.last = "play_exclusive_sound"]
    /\ UNCHANGED notSfxVars

\* update_sounds; music_ok is the result of start_music where it is called
\* before the exclusive-sound block.
UpdateSounds ==
    /\ SfxRunning
    /\ \E music_ok \in BOOLEAN, get_ok \in BOOLEAN, cache_ok \in BOOLEAN, play_ok \in BOOLEAN :
          IF ~music_ok
          THEN /\ sounds' = [sounds EXCEPT !.last = "update_sounds Err"]
               /\ UNCHANGED sfx
          ELSE LET u == update_exclusive(sfx, get_ok, cache_ok, play_ok)
               IN  /\ sfx' = u.sfx
                   /\ sounds' = [sounds EXCEPT !.taken = @ \o u.taken,
                                               !.started = @ \o u.started,
                                               !.last = "update_sounds " \o u.result]
    /\ UNCHANGED notSfxVars

\* The exclusive instance plays to its end.
InstanceStops ==
    /\ SfxRunning
    /\ sfx.exclusive_instance.some
    /\ sfx.exclusive_instance.playing
    /\ sfx' = [sfx EXCEPT !.exclusive_instance.playing = FALSE]
    /\ sounds' = [sounds EXCEPT !.last = "stopped"]
    /\ UNCHANGED notSfxVars

SfxNext ==
    \/ PlayExclusiveSound
    \/ UpdateSounds
    \/ InstanceStops

SpecSfx == SfxInit /\ [][SfxNext]_vars

\* C30: exclusive sounds are started by update_sounds in the order they were
\* requested: a step starts at most one, only update_sounds starts one, it
\* starts one only when no exclusive instance is still playing, and the one
\* it starts is the oldest request that no update_sounds has taken yet.
C30_ExclusiveFifo ==
    [][/\ Len(sounds'.started) <= Len(sounds.started) + 1
       /\ sounds'.started # sounds.started
              => /\ sounds'.last = "update_sounds Ok"
                 /\ \/ ~sfx.exclusive_instance.some
                    \/ ~sfx.exclusive_instance.playing
                 /\ Len(sounds.taken) < Len(sounds.requested)
                 /\ sounds'.started
                      = Append(sounds.started, sounds.requested[Len(sounds.taken) + 1])
                 /\ sfx'.exclusive_instance
                      = Some(sounds.requested[Len(sounds.taken) + 1], TRUE)]_vars

\* Two different sounds requested while the first of them could not start
\* yet, both started since, in the order of the requests.
C30_Witness ==
    /\ Len(sounds.started) = 2
    /\ sounds.started[1] # sounds.started[2]
    /\ sounds.started = SubSeq(sounds.requested, 1, 2)
    /\ sfx.exclusive_instance.some
    /\ sfx.exclusive_instance.playing
    /\ sfx.exclusive_sounds # <<>>

=============================================================================
